---- MODULE Spec2Model ----
(***************************************************************************)
(* Dynamic programming on a finite MDP (policy evaluation, policy          *)
(* improvement, policy iteration) and the tabular Q-Learning callback.     *)
(*                                                                         *)
(* The dynamic-programming notebook is an exercise sheet: the loops, the   *)
(* snapshot V_old, the stopping test, the changed flag and the outer loop  *)
(* are in the source; the right-hand sides left as "..." (the body of      *)
(* q_value, the assignment of the sweep, the operands of argmax and of the *)
(* comparison, the two calls of policy_iteration) and the helper module    *)
(* utils (MDP.states_iter, MDP.actions_in_state, the tensor T) are not.    *)
(* Those parts are modelled from the specification, sections 3 and 4.      *)
(*                                                                         *)
(* Numbers.  np.float values are finite-precision numbers.  They are       *)
(* modelled as fixed-point numbers: the integer n stands for n / scale,    *)
(* and every product is rounded to the nearest representable number, ties *)
(* to even, as IEEE 754 rounds.  Rewards are integers, gamma, theta, the   *)
(* learning rate and probabilities are exact fractions <<num, den>>.       *)
(* A threshold theta is at least four grid steps, as the notebook's        *)
(* theta = 1. is many steps of a float; below that the rounding of one     *)
(* sweep is as large as the threshold itself.                              *)
(*                                                                         *)
(* Not modelled: print, visualize and plt.pause, which change none of the  *)
(* tables, and the two calls that run policy_evaluation and                *)
(* policy_improvement once on their own before policy_iteration resets pi  *)
(* and V.                                                                  *)
(*                                                                         *)
(* The Q-Learning agent is complete in the source.  The library that       *)
(* drives it (hrl.loop and the gym environment) is not part of the source: *)
(* the order of the callbacks and the choice of the action are modelled    *)
(* from the specification, section 4.4, and the environment is any         *)
(* sequence of transitions over two states.                                *)
(***************************************************************************)
EXTENDS Integers, Sequences, FiniteSets, TLC

\* ---------------------------------------------------------------- bounds
\* number of states of the MDP
NS == 2
\* number of fractional bits of a value
FracBits == 3
\* denominator of the transition probabilities
PDen == 2

\* the grid of the fixed-point numbers: 2^FracBits steps per unit
RECURSIVE Pow(_, _)
Pow(b, e) == IF e = 0 THEN 1 ELSE b * Pow(b, e - 1)

Grid == Pow(2, FracBits)

\* ------------------------------------------------------------- arithmetic
Abs(x) == IF x < 0 THEN -x ELSE x

\* the maximum of a non-empty set of integers
SetMax(S) == CHOOSE x \in S : \A y \in S : y <= x

\* the minimum of a non-empty set of integers
SetMin(S) == CHOOSE x \in S : \A y \in S : x <= y

\* n / d rounded to the nearest integer, ties to the even one (d > 0)
RoundDiv(n, d) ==
    LET q == n \div d
        r == n % d
    IN  IF 2 * r > d \/ (2 * r = d /\ q % 2 = 1) THEN q + 1 ELSE q

\* the product of the fraction f = <<num, den>> and the value x
Mul(f, x) == RoundDiv(f[1] * x, f[2])

\* ------------------------------------------------------------- the MDP
\* mdp.states_iter(): the states in their fixed enumeration order
states_iter == [k \in 1..NS |-> k]

States == 1..NS

\* the action range; 0 ("move nothing") is the default action of pi
Actions == {0, 1}

\* the state after s in the ring of states
Succ(s) == (s % NS) + 1

\* entries of the transition tensor for one (state, action):
\* <<pStay, rStay, rNext>>: probability pStay/PDen of staying in s with
\* reward rStay, the rest of moving to Succ(s) with reward rNext
Menu == { <<PDen, 2, 0>>, <<0, 0, 2>>, <<1, 2, 2>>, <<PDen, -1, 0>> }

\* T[s][a][s2] = <<p, r>> (p in units of 1/PDen) built from one menu entry
Row(s, e) ==
    [s2 \in States |->
        IF s2 = s /\ s2 = Succ(s) THEN <<PDen, IF e[1] > 0 THEN e[2] ELSE e[3]>>
        ELSE IF s2 = s THEN <<e[1], e[2]>>
        ELSE IF s2 = Succ(s) THEN <<PDen - e[1], e[3]>>
        ELSE <<0, 0>>]

\* the entry of an action that is illegal in the state: never reached
ZeroRow == [s2 \in States |-> <<0, 0>>]

\* the transition models explored: action 0 is legal everywhere,
\* action 1 is legal in a state or not
ModelsOver(menu) ==
    { m \in [States -> [Actions -> menu \cup {<<>>}]] :
        \A s \in States : m[s][0] # <<>> }

Models == ModelsOver(Menu)

\* the models termination is explored on: every reward is 1 or every move
\* is free, so that many policies are equally good
LiveMenu == { <<PDen, 1, 0>>, <<0, 0, 1>>, <<1, 1, 1>> }

LiveModels == ModelsOver(LiveMenu)

BuildT(m) ==
    [s \in States |-> [a \in Actions |->
        IF m[s][a] = <<>> THEN ZeroRow ELSE Row(s, m[s][a])]]

BuildLegal(m) ==
    [s \in States |-> { a \in Actions : m[s][a] # <<>> }]

Gammas == { <<1, 2>> }
Thetas == { <<1, 1>>, <<1, 2>> }
LiveThetas == { <<1, 2>> }

\* the outer counter i of policy_iteration is followed up to MaxIter
MaxIter == 4
\* transitions the Q-Learning agent is followed through
MaxSteps == 2
\* episodes whose end the Q-Learning agent is followed through
MaxEpisodes == 2
\* the largest magnitude of a finite value, in units
FloatMax == 64
\* decimal digits of a value in the scenario of the chain A, B
ScenarioDigits == 5

VARIABLES
    T,          \* the transition tensor (utils.MDP.get_dynamics)
    legal,      \* the legal actions of every state
    gamma,      \* discount factor <<num, den>>
    theta,      \* evaluation threshold <<num, den>>
    scale,      \* fixed-point steps per unit
    V,          \* value table
    pi,         \* policy table
    V_old,      \* policy_evaluation: snapshot before the sweep
    changed,    \* policy_improvement: its flag and return value
    idx,        \* position of the running for loop in states_iter
    i,          \* policy_iteration: its counter i (saturating at MaxIter)
    pc,         \* position of policy_iteration
    swept,      \* history: states assigned since the last snapshot
    pi_old,     \* history: pi when policy_improvement was entered
    V_eval,     \* history: V when policy_evaluation returned before last
    V_ret,      \* history: V when policy_evaluation last returned
    n_eval,     \* history: returns of policy_evaluation so far (0, 1, 2+)
    V_pre,      \* history: V when the running sweep started
    Q,              \* TabularQLearning: the Q-table
    _lr,            \* learning_rate <<num, den>>
    _decay,         \* decay_steps
    _gamma,         \* discount_factor <<num, den>>
    _episode_count, \* the episode counter
    _return,        \* rewards summed since on_episode_start
    running_avg,    \* the averages appended so far, each <<num, den>>
    scores,         \* what plan last returned
    transition,     \* the transition of the last on_step_taken
    steps,          \* transitions observed so far
    loop,           \* hrl.loop: the callback it calls next
    cur,            \* hrl.loop: the state the environment is in
    Q_old,          \* history: Q when the last on_step_taken was entered
    inputs,         \* history: the transitions observed, in order
    noise_in,       \* history: the noise the last plan drew
    truncated,      \* history: some episode ended with no terminal transition
    started_at      \* history: transitions observed before the last on_episode_start

params == <<T, legal, gamma, theta, scale>>
hist == <<swept, pi_old, V_eval, V_ret, n_eval, V_pre>>
dpvars == <<params, V, pi, V_old, changed, idx, i, pc, hist>>

qlvars == <<Q, _lr, _decay, _gamma, _episode_count, _return, running_avg,
            scores, transition, steps, loop, cur, Q_old,
            inputs, noise_in, truncated, started_at>>

vars == <<dpvars, qlvars>>

\* ----------------------------------------------------------- q_value
\* what a value holds once a result was too large for a float: inf, or the
\* nan that arithmetic on inf gives.  No arithmetic leads back to a number
\* and no comparison with it is true.
NaN == Pow(2, 30)

\* the float of a result: itself within the finite range, NaN beyond
\* (the operand is bound to y so that it is evaluated once)
Fl(x) ==
    CHOOSE r \in { IF y = NaN \/ Abs(y) > FloatMax * scale THEN NaN ELSE y :
                     y \in {x} } : TRUE

\* a + b, a - b and f * x in floats
FAdd(a, b) ==
    CHOOSE r \in { IF y[1] = NaN \/ y[2] = NaN THEN NaN ELSE Fl(y[1] + y[2]) :
                     y \in {<<a, b>>} } : TRUE

FSub(a, b) ==
    CHOOSE r \in { IF y[1] = NaN \/ y[2] = NaN THEN NaN ELSE Fl(y[1] - y[2]) :
                     y \in {<<a, b>>} } : TRUE

FMul(f, x) ==
    CHOOSE r \in { IF y = NaN THEN NaN ELSE Fl(Mul(f, y)) : y \in {x} } : TRUE

\* p * (r + gamma * W[s2]) for p, r = T[s, a, s2] and a value table W
term_in(W, s, action, s2, g) ==
    LET p == T[s][action][s2][1]
        r == T[s][action][s2][2]
    IN  FMul(<<p, PDen>>, FAdd(r * scale, FMul(g, W[s2])))

\* the term of one next state s2: p, r = T[s, a, s2]; p * (r + gamma * V[s2])
q_term(s, action, s2, g) == term_in(V, s, action, s2, g)

\* q = 0.; for each next state: q += term; return q
RECURSIVE q_sum(_, _, _, _)
q_sum(s, action, g, k) ==
    IF k = 0 THEN 0
    ELSE FAdd(q_sum(s, action, g, k - 1), q_term(s, action, states_iter[k], g))

q_value(s, action, g) == q_sum(s, action, g, Len(states_iter))

\* the same sum with the values read from the table W
RECURSIVE q_sum_in(_, _, _, _, _)
q_sum_in(W, s, action, g, k) ==
    IF k = 0 THEN 0
    ELSE FAdd(q_sum_in(W, s, action, g, k - 1),
              term_in(W, s, action, states_iter[k], g))

q_value_in(W, s, action, g) == q_sum_in(W, s, action, g, Len(states_iter))

\* ------------------------------------------------- TabularQLearning
QStates == {1, 2}
QActions == {0, 1}

\* the rewards an environment hands out
Rewards == {0, 1}

\* transition: what on_step_taken reads of it
Transitions ==
    [state : QStates, action : QActions, reward : Rewards,
     next_state : QStates, is_terminal : BOOLEAN]

\* env.reset(): the state every episode starts in
StartState == 1

\* lr, decay, gamma: the arguments of the constructor
Hypers == { <<<<3, 4>>, 2, <<1, 2>>>>, <<<<3, 4>>, 1, <<1, 2>>>> }

NoTransition == [state |-> 0]

\* self.Q = np.zeros((nstates, nactions))
QZero == [s \in QStates |-> [a \in QActions |-> 0]]

\* __init__
TabularQLearning(learning_rate, decay_steps, discount_factor) ==
    /\ _lr = learning_rate
    /\ _decay = decay_steps
    /\ _gamma = discount_factor
    /\ _episode_count = 1
    /\ _return = 0
    /\ running_avg = << <<0, 1>> >>
    /\ Q = QZero
    /\ scores = [a \in QActions |-> 0]
    /\ transition = NoTransition
    /\ steps = 0
    /\ loop = "reset"
    /\ cur = StartState
    /\ Q_old = QZero
    /\ inputs = <<>>
    /\ noise_in = [a \in QActions |-> 0]
    /\ truncated = FALSE
    /\ started_at = 0

\* the noise np.random.randn draws, one number for every action
Noises == { n \in [QActions -> {-1, 1}] : n[0] # n[1] }

\* plan: Q[state] + random_noise * (1. / episode_count)
Plan(state, noise) ==
    /\ loop = "plan"
    /\ steps < MaxSteps
    /\ state = cur
    /\ loop' = "step"
    /\ scores' = [a \in QActions |->
                    Q[state][a] + RoundDiv(noise[a] * scale, _episode_count)]
    /\ noise_in' = noise
    /\ UNCHANGED <<dpvars, Q, _lr, _decay, _gamma, _episode_count, _return,
                   running_avg, transition, steps, cur, Q_old, inputs,
                   truncated, started_at>>

\* on_episode_start: self._return = 0
OnEpisodeStart ==
    /\ loop = "reset"
    /\ Len(running_avg) <= MaxEpisodes
    /\ _return' = 0
    /\ cur' = StartState
    /\ loop' = "plan"
    /\ started_at' = Len(inputs)
    /\ UNCHANGED <<dpvars, Q, _lr, _decay, _gamma, _episode_count,
                   running_avg, scores, transition, steps, Q_old, inputs,
                   noise_in, truncated>>

\* variant: the rate is scaled down once an average has been appended
LR_by_avg(e) == IF Len(running_avg) > 1 THEN scale \div 2 ELSE scale

\* pow(lr, e / d) on the grid: the nearest x with (x / scale)^d = lr^e,
\* found by comparing the d-th powers
LR(e) ==
    LET want == Pow(_lr[1], e)
        den == Pow(_lr[2], e)
        Below(x, unit) == Pow(x, _decay) * den <= want * Pow(unit, _decay)
        f == CHOOSE x \in 0..scale : Below(x, scale) /\ ~Below(x + 1, scale)
        mid == Pow(2 * f + 1, _decay) * den
        half == want * Pow(2 * scale, _decay)
    IN  IF mid < half \/ (mid = half /\ f % 2 = 1) THEN f + 1 ELSE f

\* np.max(self.Q[next_state])
RowMax(row) == SetMax({ row[a] : a \in QActions })

\* variant: reward + gamma * max, terminal or not
target_bootstrap(t) == t.reward * scale + Mul(_gamma, RowMax(Q[t.next_state]))

\* target = reward if terminal, else reward + gamma * np.max(Q[next_state])
target(t) ==
    IF t.is_terminal
    THEN t.reward * scale
    ELSE t.reward * scale + Mul(_gamma, RowMax(Q[t.next_state]))

\* the action hrl.loop takes: the first largest of the scores of plan
taken == IF scores[1] > scores[0] THEN 1 ELSE 0

\* variant: the episode counter is increased by every transition
OnStepTaken_count_all(t) ==
    /\ loop = "step"
    /\ t.state = cur
    /\ t.action = taken
    /\ cur' = t.next_state
    /\ loop' = IF t.is_terminal THEN "end" ELSE "plan"
    /\ _return' = _return + t.reward
    /\ LET old == Q[t.state][t.action]
       IN  Q' = [Q EXCEPT ![t.state][t.action] =
                    old + RoundDiv(LR(_episode_count) * (target(t) - old), scale)]
    /\ _episode_count' = _episode_count + 1
    /\ transition' = t
    /\ Q_old' = Q
    /\ steps' = steps + 1
    /\ inputs' = Append(inputs, t)
    /\ UNCHANGED <<dpvars, _lr, _decay, _gamma, running_avg, scores,
                   noise_in, truncated, started_at>>

\* variant: Q += lr * (target + Q), the sign of the old value inverted
OnStepTaken_plus(t) ==
    /\ loop = "step"
    /\ t.state = cur
    /\ t.action = taken
    /\ cur' = t.next_state
    /\ loop' = IF t.is_terminal THEN "end" ELSE "plan"
    /\ _return' = _return + t.reward
    /\ LET old == Q[t.state][t.action]
       IN  Q' = [Q EXCEPT ![t.state][t.action] =
                    old + RoundDiv(LR(_episode_count) * (target(t) + old), scale)]
    /\ _episode_count' = IF t.is_terminal THEN _episode_count + 1
                                          ELSE _episode_count
    /\ transition' = t
    /\ Q_old' = Q
    /\ steps' = steps + 1
    /\ inputs' = Append(inputs, t)
    /\ UNCHANGED <<dpvars, _lr, _decay, _gamma, running_avg, scores,
                   noise_in, truncated, started_at>>

\* on_step_taken, called with the transition the environment made
OnStepTaken(t) ==
    /\ loop = "step"
    /\ t.state = cur
    /\ t.action = taken
    /\ cur' = t.next_state
    /\ loop' = IF t.is_terminal THEN "end" ELSE "plan"
    /\ _return' = _return + t.reward
    /\ LET old == Q[t.state][t.action]
       IN  Q' = [Q EXCEPT ![t.state][t.action] =
                    old + RoundDiv(LR(_episode_count) * (target(t) - old), scale)]
    /\ _episode_count' = IF t.is_terminal THEN _episode_count + 1
                                          ELSE _episode_count
    /\ transition' = t
    /\ Q_old' = Q
    /\ steps' = steps + 1
    /\ inputs' = Append(inputs, t)
    /\ UNCHANGED <<dpvars, _lr, _decay, _gamma, running_avg, scores,
                   noise_in, truncated, started_at>>

Last(seq) == seq[Len(seq)]

\* variant: the episode is counted by on_episode_end as well
OnEpisodeEnd_counts ==
    /\ loop \in {"end", "plan"}
    /\ loop' = "reset"
    /\ running_avg' = Append(running_avg,
            << _return * Last(running_avg)[2] + 99 * Last(running_avg)[1],
               100 * Last(running_avg)[2] >>)
    /\ _episode_count' = _episode_count + 1
    /\ truncated' = (truncated \/ loop = "plan")
    /\ UNCHANGED <<dpvars, Q, _lr, _decay, _gamma, _return,
                   scores, transition, steps, cur, Q_old, inputs, noise_in,
                   started_at>>

\* on_episode_end: append 0.01 * return + 0.99 * running_avg[-1]
OnEpisodeEnd ==
    /\ loop \in {"end", "plan"}
    /\ loop' = "reset"
    /\ running_avg' = Append(running_avg,
            << _return * Last(running_avg)[2] + 99 * Last(running_avg)[1],
               100 * Last(running_avg)[2] >>)
    /\ truncated' = (truncated \/ loop = "plan")
    /\ UNCHANGED <<dpvars, Q, _lr, _decay, _gamma, _episode_count, _return,
                   scores, transition, steps, cur, Q_old, inputs, noise_in,
                   started_at>>

\* metrics: {"avg. return": running_avg[-1]}
metrics == Last(running_avg)

\* ------------------------------------------------------ initial state
Zero == [s \in States |-> 0]

\* pi = np.zeros(...), V = np.zeros(...); policy_iteration() is entered
InitFor(models, gammas, thetas) ==
    /\ \E m \in models : T = BuildT(m) /\ legal = BuildLegal(m)
    /\ gamma \in gammas
    /\ theta \in thetas
    /\ scale = Grid
    /\ V = Zero
    /\ pi = Zero
    /\ V_old = Zero
    /\ changed = FALSE
    /\ idx = 1
    /\ i = 0
    /\ pc = "eval_copy"
    /\ swept = {}
    /\ pi_old = Zero
    /\ V_eval = Zero
    /\ V_ret = Zero
    /\ n_eval = 0
    /\ V_pre = Zero
    /\ TabularQLearning(<<3, 4>>, 2, <<1, 2>>)

InitOver(models, thetas) == InitFor(models, Gammas, thetas)

Init == InitOver(Models, Thetas)

\* -------------------------------------------------- policy_evaluation
\* V_old = np.copy(V), and the for loop over the states starts
EvalCopy ==
    /\ pc = "eval_copy"
    /\ V_old' = V
    /\ idx' = 1
    /\ pc' = "eval_sweep"
    /\ swept' = {}
    /\ V_pre' = V
    /\ UNCHANGED <<qlvars, params, V, pi, changed, i, pi_old, V_eval, V_ret, n_eval>>

\* the value assigned to V[s] by the sweep: q_value(s, pi[s], gamma)
eval_target(s) == q_value(s, pi[s], gamma)

\* variant: the sweep reads the snapshot V_old
EvalState_jacobi ==
    /\ pc = "eval_sweep"
    /\ LET s == states_iter[idx]
       IN  /\ V' = [V EXCEPT ![s] = q_value_in(V_old, s, pi[s], gamma)]
           /\ swept' = swept \cup {s}
    /\ idx' = idx + 1
    /\ pc' = IF idx = Len(states_iter) THEN "eval_stop" ELSE "eval_sweep"
    /\ UNCHANGED <<qlvars, params, pi, V_old, changed, i, pi_old, V_eval, V_ret, n_eval, V_pre>>

\* one iteration of the for loop of the sweep, in place
EvalState ==
    /\ pc = "eval_sweep"
    /\ LET s == states_iter[idx]
       IN  /\ V' = [V EXCEPT ![s] = eval_target(s)]
           /\ swept' = swept \cup {s}
    /\ idx' = idx + 1
    /\ pc' = IF idx = Len(states_iter) THEN "eval_stop" ELSE "eval_sweep"
    /\ UNCHANGED <<qlvars, params, pi, V_old, changed, i, pi_old, V_eval, V_ret, n_eval, V_pre>>

\* variant: np.min in the place of np.max
max_diff_min == SetMin({ Abs(V_old[s] - V[s]) : s \in States })

\* np.abs in floats
FAbs(x) == CHOOSE r \in { IF y = NaN THEN NaN ELSE Abs(y) : y \in {x} } : TRUE

\* max_diff = np.max(np.abs(V_old - V)); the largest element is NaN when
\* NaN is among them
max_diff == SetMax({ FAbs(FSub(V_old[s], V[s])) : s \in States })

\* x < theta, for x in grid steps and theta a fraction
BelowTheta(x) == x # NaN /\ x * theta[2] < theta[1] * scale

\* variant: max_diff <= theta
eval_converged_le == max_diff * theta[2] <= theta[1] * scale

\* if max_diff < theta
eval_converged == BelowTheta(max_diff)

\* early stopping: break and return into policy_iteration, which calls
\* policy_improvement (changed = False); otherwise the next sweep
EvalStop ==
    /\ pc = "eval_stop"
    /\ IF eval_converged
       THEN /\ pc' = "improve"
            /\ changed' = FALSE
            /\ idx' = 1
            /\ pi_old' = pi
            /\ V_eval' = V_ret
            /\ V_ret' = V
            /\ n_eval' = IF n_eval < 2 THEN n_eval + 1 ELSE n_eval
       ELSE /\ pc' = "eval_copy"
            /\ UNCHANGED <<changed, idx, pi_old, V_eval, V_ret, n_eval>>
    /\ UNCHANGED <<qlvars, params, V, pi, V_old, i, swept, V_pre>>

\* ------------------------------------------------- policy_improvement
\* mdp.actions_in_state(s): the legal actions in ascending order
RECURSIVE SortedSeq(_)
SortedSeq(S) ==
    IF S = {} THEN <<>>
    ELSE LET m == CHOOSE x \in S : \A y \in S : x <= y
         IN  <<m>> \o SortedSeq(S \ {m})

actions_in_state(s) == SortedSeq(legal[s])

\* variant: every action of the action range, legal or not
actions_all(s) == SortedSeq(Actions)

\* actions = list(mdp.actions_in_state(n1, n2))
actions(s) == actions_in_state(s)

\* variant: the q-value of the policy's action for every legal action
q_values_policy(s) ==
    [k \in 1..Len(actions(s)) |-> q_value(s, pi[s], gamma)]

\* q_values = list(map(lambda action: q_value(...), actions))
q_values(s) == [k \in 1..Len(actions(s)) |-> q_value(s, actions(s)[k], gamma)]

\* variant: the last index holding the maximum
argmax_last(qs) ==
    CHOOSE k \in 1..Len(qs) :
        /\ \A j \in 1..Len(qs) : qs[j] <= qs[k]
        /\ \A j \in (k + 1)..Len(qs) : qs[j] < qs[k]

\* variant: np.argmin, the first index holding the minimum
argmin(qs) ==
    CHOOSE k \in 1..Len(qs) :
        /\ \A j \in 1..Len(qs) : qs[k] <= qs[j]
        /\ \A j \in 1..(k - 1) : qs[k] < qs[j]

\* np.argmax: the first index holding the maximum
argmax(qs) ==
    CHOOSE k \in 1..Len(qs) :
        /\ \A j \in 1..Len(qs) : qs[j] <= qs[k]
        /\ \A j \in 1..(k - 1) : qs[j] < qs[k]

\* best_a = actions[np.argmax(q_values)]
best_a(s) == actions(s)[argmax(q_values(s))]

\* variant: changed = True outside the if, after every state
ImproveState_flag_always ==
    /\ pc = "improve"
    /\ LET s == states_iter[idx]
       IN  IF pi[s] # best_a(s)
           THEN pi' = [pi EXCEPT ![s] = best_a(s)]
           ELSE UNCHANGED pi
    /\ changed' = TRUE
    /\ idx' = idx + 1
    /\ pc' = IF idx = Len(states_iter) THEN "iter_check" ELSE "improve"
    /\ UNCHANGED <<qlvars, params, V, V_old, i, hist>>

\* variant: changed = (pi[s] != best_a), the flag of the last state only
ImproveState_flag_last ==
    /\ pc = "improve"
    /\ LET s == states_iter[idx]
       IN  /\ changed' = (pi[s] # best_a(s))
           /\ pi' = [pi EXCEPT ![s] = best_a(s)]
    /\ idx' = idx + 1
    /\ pc' = IF idx = Len(states_iter) THEN "iter_check" ELSE "improve"
    /\ UNCHANGED <<qlvars, params, V, V_old, i, hist>>

\* variant: the improvement also stores the value of the best action
ImproveState_writes_V ==
    /\ pc = "improve"
    /\ LET s == states_iter[idx]
       IN  /\ IF pi[s] # best_a(s)
              THEN /\ pi' = [pi EXCEPT ![s] = best_a(s)]
                   /\ changed' = TRUE
              ELSE UNCHANGED <<pi, changed>>
           /\ V' = [V EXCEPT ![s] = q_value(s, best_a(s), gamma)]
    /\ idx' = idx + 1
    /\ pc' = IF idx = Len(states_iter) THEN "iter_check" ELSE "improve"
    /\ UNCHANGED <<qlvars, params, V_old, i, hist>>

\* one iteration of the for loop: if pi[s] != best_a: pi[s] = best_a,
\* changed = True; after the last state the function returns changed
ImproveState ==
    /\ pc = "improve"
    /\ LET s == states_iter[idx]
       IN  IF pi[s] # best_a(s)
           THEN /\ pi' = [pi EXCEPT ![s] = best_a(s)]
                /\ changed' = TRUE
           ELSE UNCHANGED <<pi, changed>>
    /\ idx' = idx + 1
    /\ pc' = IF idx = Len(states_iter) THEN "iter_check" ELSE "improve"
    /\ UNCHANGED <<qlvars, params, V, V_old, i, hist>>

\* --------------------------------------------------- policy_iteration
\* variant: if changed: break
IterCheck_swapped ==
    /\ pc = "iter_check"
    /\ IF changed
       THEN pc' = "converged" /\ i' = i
       ELSE pc' = "eval_copy" /\ i' = (IF i < MaxIter THEN i + 1 ELSE i)
    /\ UNCHANGED <<qlvars, params, V, pi, V_old, changed, idx, hist>>

\* if not changed: break; otherwise i += 1 and the next policy_evaluation
IterCheck ==
    /\ pc = "iter_check"
    /\ IF ~changed
       THEN pc' = "converged" /\ i' = i
       ELSE pc' = "eval_copy" /\ i' = (IF i < MaxIter THEN i + 1 ELSE i)
    /\ UNCHANGED <<qlvars, params, V, pi, V_old, changed, idx, hist>>

Next == EvalCopy \/ EvalState \/ EvalStop \/ ImproveState \/ IterCheck

Spec == Init /\ [][Next]_vars

\* policy_iteration() runs to its end unless a loop never ends: the
\* interpreter always takes the next step
LiveSpec == InitOver(LiveModels, LiveThetas) /\ [][Next]_vars /\ WF_vars(Next)

\* ===================================================================
\* policy_iteration called with a proper discount or with gamma = 2
CapGammas == { <<1, 2>>, <<2, 1>> }

CapSpec ==
    InitFor(LiveModels, CapGammas, LiveThetas) /\ [][Next]_vars /\ WF_vars(Next)

\* the chain of two states: A = 1, B = 2 (and every further state as B).
\* A,0 -> A reward 1; A,1 -> B reward 0; B,any -> B reward 0
ScenarioT ==
    [s \in States |-> [a \in Actions |-> [s2 \in States |->
        IF s2 = (IF s = 1 /\ a = 1 THEN 2 ELSE s)
        THEN <<PDen, IF s = 1 /\ a = 0 THEN 1 ELSE 0>>
        ELSE <<0, 0>>]]]

\* policy_iteration(gamma=0.9, theta=1e-3) on the chain: its first step is
\* policy_evaluation of the policy 'always action 0' from V = 0
ScenarioInit ==
    /\ T = ScenarioT
    /\ legal = [s \in States |-> Actions]
    /\ gamma = <<9, 10>>
    /\ theta = <<1, 1000>>
    /\ scale = Pow(10, ScenarioDigits)
    /\ V = Zero /\ pi = Zero /\ V_old = Zero /\ changed = FALSE
    /\ idx = 1 /\ i = 0 /\ pc = "eval_copy"
    /\ swept = {} /\ pi_old = Zero /\ V_eval = Zero /\ V_ret = Zero
    /\ n_eval = 0 /\ V_pre = Zero
    /\ TabularQLearning(<<3, 4>>, 2, <<1, 2>>)

ScenarioSpec == ScenarioInit /\ [][Next]_vars

\* ------------------------------------------------ the training loop
\* the agent is constructed; the dynamic-programming notebook is not run
QInit ==
    /\ T = BuildT([s \in States |-> [a \in Actions |-> <<>>]])
    /\ legal = [s \in States |-> {}]
    /\ gamma = <<1, 2>>
    /\ theta = <<1, 1>>
    /\ scale = Grid
    /\ V = Zero /\ pi = Zero /\ V_old = Zero /\ changed = FALSE
    /\ idx = 1 /\ i = 0 /\ pc = "not_run"
    /\ swept = {} /\ pi_old = Zero /\ V_eval = Zero /\ V_ret = Zero
    /\ n_eval = 0 /\ V_pre = Zero
    /\ \E h \in Hypers : TabularQLearning(h[1], h[2], h[3])

\* hrl.loop, for every episode: on_episode_start, then plan and
\* on_step_taken in turns until a transition is terminal or the loop gives
\* the episode up, then on_episode_end
QNext ==
    \/ \E state \in QStates, noise \in Noises : Plan(state, noise)
    \/ OnEpisodeStart
    \/ \E t \in Transitions : OnStepTaken(t)
    \/ OnEpisodeEnd

QSpec == QInit /\ [][QNext]_vars

\* Properties
\* ===================================================================
\* the state of the state machine of policy_iteration
Phase ==
    IF pc \in {"eval_copy", "eval_sweep", "eval_stop"} THEN "Evaluating"
    ELSE IF pc \in {"improve", "iter_check"} THEN "Improving"
    ELSE "Converged"

\* the largest change of the sweep, computed from the two tables
SweepChange == SetMax({ Abs(V[s] - V_pre[s]) : s \in States })

\* C1: policy_iteration starts in Evaluating; Improving is entered only
\* from Evaluating, after a full sweep whose largest change is below
\* theta; Improving is left for Evaluating exactly when changed is true
\* and for Converged exactly when changed is false; no step is taken once
\* Converged.
C1_StateMachine ==
    /\ Phase = "Evaluating"
    /\ [][ /\ Phase # "Converged"
           /\ (Phase' = "Improving" /\ Phase # "Improving") =>
                 /\ Phase = "Evaluating"
                 /\ swept = States
                 /\ BelowTheta(SweepChange)
           /\ (Phase = "Evaluating" /\ Phase' # "Evaluating") =>
                 Phase' = "Improving"
           /\ (Phase = "Improving" /\ Phase' # "Improving") =>
                 /\ (Phase' = "Evaluating") <=> changed
                 /\ (Phase' = "Converged") <=> ~changed
         ]_vars

\* C1 witness: the machine went Improving -> Evaluating at least once and
\* then reached Converged
C1_Witness == pc = "converged" /\ i >= 1

\* policy_iteration() returns
Done == pc = "converged"

QMax(s) == SetMax({ q_value(s, a, gamma) : a \in legal[s] })
Greedy(s) == { a \in legal[s] : q_value(s, a, gamma) = QMax(s) }
FirstGreedy(s) == CHOOSE a \in Greedy(s) : \A b \in Greedy(s) : a <= b

\* C3: when policy_iteration stops, every pi[s] is the first maximiser of
\* q_value(s, a, gamma) over the legal actions of s, under the final V.
C3_GreedyConsistent == Done => \A s \in States : pi[s] = FirstGreedy(s)

\* C3 witness: policy_iteration stopped with a policy other than the
\* initial one, in a state where two legal actions are equally good
C3_Witness ==
    /\ Done
    /\ pi # Zero
    /\ \E s \in States : Cardinality(Greedy(s)) >= 2

\* policy_evaluation has just returned
EvalReturned == pc = "improve" /\ idx = 1

\* C4: whenever policy_evaluation returns, |V(s) - q_value(s, pi(s), gamma)|
\* < theta in every state, q_value computed from the final table.
C4_BellmanResidual ==
    EvalReturned =>
        \A s \in States : BelowTheta(Abs(V[s] - q_value(s, pi[s], gamma)))

\* C4 witness: policy_evaluation returned a table that is not yet a fixed
\* point of the sweep
C4_Witness ==
    /\ EvalReturned
    /\ \E s \in States : V[s] # q_value(s, pi[s], gamma)

\* C5: policy_evaluation leaves its loop only from the stopping test after
\* a full sweep, exactly when the largest difference between the table and
\* the table before that sweep is below theta; otherwise it takes a new
\* snapshot and sweeps again.
C5_StopRule ==
    [][ /\ (Phase = "Evaluating" /\ Phase' # "Evaluating") => pc = "eval_stop"
        /\ pc = "eval_stop" =>
              /\ swept = States
              /\ (pc' = "improve") <=> BelowTheta(SweepChange)
              /\ (pc' = "eval_copy") <=> ~BelowTheta(SweepChange)
        /\ pc = "eval_copy" => V_old' = V /\ pc' = "eval_sweep"
      ]_vars

\* C5 witness: the stopping test is reached after a sweep whose largest
\* change is exactly theta (the test is strict: the loop goes on)
C5_Witness ==
    /\ pc = "eval_stop"
    /\ swept = States
    /\ SweepChange * theta[2] = theta[1] * scale

\* policy_improvement has just returned
ImproveReturned == pc = "iter_check"

\* C6: after policy_improvement every pi[s] is a legal action of s whose
\* q-value is maximal among the legal actions of s, under the value table
\* policy_evaluation returned (policy_improvement does not write V).
C6_LegalArgmax ==
    ImproveReturned =>
        /\ V = V_ret
        /\ \A s \in States :
              /\ pi[s] \in legal[s]
              /\ \A a \in legal[s] :
                    q_value(s, a, gamma) <= q_value(s, pi[s], gamma)

\* C6 witness: policy_improvement returned, and in some state an illegal
\* action has a larger q-value than the action stored
C6_Witness ==
    /\ ImproveReturned
    /\ \E s \in States : \E a \in Actions \ legal[s] :
          q_value(s, a, gamma) > q_value(s, pi[s], gamma)

\* C7: after policy_improvement pi[s] is, in every state, the lowest legal
\* action among those of maximal q-value: the policy is a function of the
\* transition model, the value table and gamma alone.
C7_TieBreak ==
    ImproveReturned => pi = [s \in States |-> FirstGreedy(s)]

\* C7 witness: policy_improvement returned after replacing the action of a
\* state in which two legal actions have the same maximal q-value
C7_Witness ==
    /\ ImproveReturned
    /\ \E s \in States : Cardinality(Greedy(s)) >= 2 /\ pi[s] # pi_old[s]

\* C8: policy_improvement returns changed = true exactly when the policy
\* differs from the policy at its entry in some state; when every state
\* held its greedy action at the entry it returns false and the policy is
\* the same.
C8_ChangedFlag ==
    ImproveReturned =>
        /\ changed <=> (\E s \in States : pi[s] # pi_old[s])
        /\ (\A s \in States : pi_old[s] = FirstGreedy(s)) =>
              (~changed /\ pi = pi_old)

\* C8 witness: policy_improvement returned true although the last state
\* of the enumeration kept its action
C8_Witness ==
    /\ ImproveReturned
    /\ changed
    /\ pi[states_iter[Len(states_iter)]] = pi_old[states_iter[Len(states_iter)]]

\* policy_evaluation has returned for pi, policy_improvement has changed
\* pi, and policy_evaluation has just returned for the new policy
ReEvaluated == EvalReturned /\ n_eval >= 2

\* C9 as claimed: the re-evaluated value of the improved policy is at
\* least the value of the previous policy in every state.
C9_NoRegression ==
    ReEvaluated => \A s \in States : V_ret[s] >= V_eval[s]

\* C9: the re-evaluated value of the improved policy is, in every state,
\* at least the value of the previous policy minus theta / (1 - gamma).
C9_BoundedRegression ==
    ReEvaluated =>
        \A s \in States :
            (V_eval[s] - V_ret[s]) * theta[2] * (gamma[2] - gamma[1])
                <= theta[1] * scale * gamma[2]

\* C9 witness: the re-evaluated table is below the previous one in some
\* state
C9_Witness ==
    /\ ReEvaluated
    /\ \E s \in States : V_ret[s] < V_eval[s]

\* on_step_taken has run; transition and Q_old are those of its last call
StepTaken == transition # NoTransition

\* C10: on_step_taken applies the one-step Q-Learning update.  The target
\* is the reward alone when the transition is terminal, and otherwise the
\* reward plus gamma times the largest entry that the row of next_state
\* held before the call; the entry of (state, action) becomes its old value
\* plus alpha times (target - old value), alpha being the learning rate of
\* the episode counter the call was entered with.
C10_QUpdate ==
    StepTaken =>
        LET t == transition
            old == Q_old[t.state][t.action]
            e == IF t.is_terminal THEN _episode_count - 1 ELSE _episode_count
            best == SetMax({ Q_old[t.next_state][a] : a \in QActions })
            tgt == IF t.is_terminal THEN t.reward * scale
                   ELSE t.reward * scale + Mul(_gamma, best)
        IN  Q[t.state][t.action] = old + RoundDiv(LR(e) * (tgt - old), scale)

\* a transition from a state to itself, not terminal, whose write raises
\* the largest entry of the very row the target was read from
C10_Witness ==
    /\ StepTaken
    /\ ~transition.is_terminal
    /\ transition.next_state = transition.state
    /\ RowMax(Q_old[transition.state]) > 0
    /\ Mul(_gamma, RowMax(Q[transition.state]))
         # Mul(_gamma, RowMax(Q_old[transition.state]))

\* the number of terminal transitions among the first k of a sequence
RECURSIVE NTerminal(_, _)
NTerminal(seq, k) ==
    IF k = 0 THEN 0
    ELSE NTerminal(seq, k - 1) + (IF seq[k].is_terminal THEN 1 ELSE 0)

\* C11: the episode counter starts at 1 and is always 1 + the number of
\* terminal transitions observed, hence at least 1; a step changes it only
\* when it is an on_step_taken of a terminal transition, and then by
\* exactly 1 (plan, on_episode_start, on_episode_end and non-terminal
\* transitions leave it alone); the learning rate of a terminal transition
\* is that of the counter before the increment.
C11_EpisodeCounter ==
    /\ _episode_count = 1
    /\ [](/\ _episode_count >= 1
          /\ _episode_count = 1 + NTerminal(inputs, Len(inputs)))
    /\ [][ IF Len(inputs') > Len(inputs) /\ Last(inputs').is_terminal
           THEN /\ _episode_count' = _episode_count + 1
                /\ LET t == Last(inputs')
                       old == Q[t.state][t.action]
                   IN  Q'[t.state][t.action] =
                          old + RoundDiv(LR(_episode_count)
                                           * (t.reward * scale - old), scale)
           ELSE _episode_count' = _episode_count ]_vars

\* two terminal transitions have been observed and both episodes ended;
\* the learning rate of the counter after the increment would have written
\* another value for the last one
C11_Witness ==
    /\ _episode_count = 3
    /\ Len(running_avg) = 3
    /\ loop = "reset"
    /\ LET t == transition
           old == Q_old[t.state][t.action]
       IN  Q[t.state][t.action] #
              old + RoundDiv(LR(_episode_count) * (t.reward * scale - old), scale)

\* the rewards of the transitions k+1 .. n of a sequence, summed
RECURSIVE RewardSum(_, _, _)
RewardSum(seq, k, n) ==
    IF n <= k THEN 0 ELSE RewardSum(seq, k, n - 1) + seq[n].reward

\* the table and the episode counter after the first k observed
\* transitions, computed from the transitions and the hyperparameters alone
RECURSIVE Replay(_)
Replay(k) ==
    IF k = 0 THEN <<QZero, 1>>
    ELSE LET before == Replay(k - 1)
             q == before[1]
             e == before[2]
             t == inputs[k]
             old == q[t.state][t.action]
             best == SetMax({ q[t.next_state][a] : a \in QActions })
             tgt == IF t.is_terminal THEN t.reward * scale
                    ELSE t.reward * scale + Mul(_gamma, best)
         IN  << [q EXCEPT ![t.state][t.action] =
                    old + RoundDiv(LR(e) * (tgt - old), scale)],
                IF t.is_terminal THEN e + 1 ELSE e >>

\* C12: the running average is a metric only.  It starts from 0 and every
\* on_episode_end appends 0.01 * (the rewards observed since the last
\* on_episode_start) + 0.99 * (the previous average).  The Q table and the
\* episode counter are those that the observed transitions and the
\* hyperparameters alone determine, and the scores of plan are the row of
\* the Q table plus the noise over the episode counter: runs that observe
\* the same transitions and differ in the return and in the running
\* average hold the same table, counter and scores.
C12_MetricOnly ==
    /\ running_avg = << <<0, 1>> >>
    /\ [](/\ <<Q, _episode_count>> = Replay(Len(inputs))
          /\ loop = "step" =>
                scores = [a \in QActions |->
                    Replay(Len(inputs))[1][cur][a]
                      + RoundDiv(noise_in[a] * scale, Replay(Len(inputs))[2])])
    /\ [][ Len(running_avg') > Len(running_avg) =>
             /\ Len(running_avg') = Len(running_avg) + 1
             /\ SubSeq(running_avg', 1, Len(running_avg)) = running_avg
             /\ LET new == Last(running_avg')
                    prev == Last(running_avg)
                    R == RewardSum(inputs, started_at, Len(inputs))
                IN  /\ new[2] = 100 * prev[2]
                    /\ new[1] = R * prev[2] + 99 * prev[1] ]_vars

\* two episodes with a reward each have ended: the return was reset in
\* between and two averages were appended, while the table was updated by
\* both transitions
C12_Witness ==
    /\ Len(running_avg) = 3
    /\ running_avg[2][1] > 0
    /\ Len(inputs) = 2
    /\ started_at = 1
    /\ _return = 1
    /\ RewardSum(inputs, 0, Len(inputs)) = 2
    /\ Q # QZero

\* C13: policy_iteration does not loop forever: it ends at its break
\* (changed == false) or, when its iteration cap is reached, at a report of
\* non-convergence, also when gamma >= 1.  The source has the break only;
\* "cap_reached" is the position such a report would be.
C13_StopsOrReports == <>(pc = "converged" \/ pc = "cap_reached")

\* C14: a policy_evaluation that was entered is left again, by its return
\* or by the report of its iteration cap: it does not sweep forever.
C14_EvaluationEnds == (Phase = "Evaluating") ~> (Phase # "Evaluating")

\* the first policy_evaluation has returned
FirstEvalReturned == EvalReturned /\ n_eval = 1

\* C15 as claimed: on the chain, with gamma = 0.9 and theta = 1e-3, the
\* evaluation of 'always action 0' from V = 0 returns V(B) = 0 and V(A)
\* within 1e-3 of 10.
C15_Within_theta ==
    FirstEvalReturned =>
        /\ V[2] = 0
        /\ Abs(V[1] - 10 * scale) * theta[2] <= theta[1] * scale

\* C15: on the chain, with gamma = 0.9 and theta = 1e-3, the evaluation of
\* 'always action 0' from V = 0 returns V(B) = 0 and V(A) below 10 and
\* within theta / (1 - gamma) = 1e-2 of 10.
C15_Within_theta_over_1_minus_gamma ==
    FirstEvalReturned =>
        /\ V[2] = 0
        /\ V[1] <= 10 * scale
        /\ (10 * scale - V[1]) * theta[2] * (gamma[2] - gamma[1])
              <= theta[1] * scale * gamma[2]

\* the evaluation has returned with V(A) more than 1e-3 below 10
C15_Witness ==
    /\ FirstEvalReturned
    /\ pi = Zero
    /\ (10 * scale - V[1]) * theta[2] > theta[1] * scale

\* C16: each phase writes only its own table: no step of policy_evaluation
\* changes an entry of pi, no step of policy_improvement (and of the test
\* of its result in policy_iteration) changes an entry of V, and no step
\* at all changes the transition model or the legal actions.
C16_OneWriter ==
    [][ /\ Phase = "Evaluating" => pi' = pi
        /\ Phase = "Improving" => V' = V
        /\ T' = T
        /\ legal' = legal ]_vars

\* both phases have written: a second evaluation has returned a table,
\* and the improvement after it has changed the policy again
C16_Witness ==
    /\ pc = "iter_check"
    /\ n_eval >= 2
    /\ changed
    /\ V # Zero
    /\ V # V_eval
    /\ pi # pi_old

\* the states enumerated before position k
Before(k) == { states_iter[j] : j \in 1..(k - 1) }

\* the table an in-place sweep reads at position k: the values written by
\* this sweep for the states before k, the snapshot for the others
Mixed(k) == [s2 \in States |-> IF s2 \in Before(k) THEN V[s2] ELSE V_old[s2]]

\* C17: the sweep is in place: the update of state s reads the values
\* already written by this sweep for every state enumerated before s and
\* the values of before the sweep for s and every state after it; V_old
\* is not the source of the updates, it is only compared with V afterwards.
C17_GaussSeidel ==
    /\ [](pc = "eval_sweep" =>
            /\ swept = Before(idx)
            /\ \A s2 \in States \ swept : V[s2] = V_old[s2])
    /\ [][ pc = "eval_sweep" =>
             V' = [V EXCEPT ![states_iter[idx]] =
                      q_value_in(Mixed(idx), states_iter[idx],
                                 pi[states_iter[idx]], gamma)] ]_vars
    /\ [][ pc = "eval_stop" => V_old' = V_old /\ V' = V ]_vars

\* a sweep has ended whose last update read a value written by the same
\* sweep: it is not the update computed from the snapshot
C17_Witness ==
    /\ pc = "eval_stop"
    /\ V_old # Zero
    /\ LET s == states_iter[idx - 1]
       IN  /\ V[s] = q_value_in(Mixed(idx - 1), s, pi[s], gamma)
           /\ V[s] # q_value_in(V_old, s, pi[s], gamma)

\* on_episode_end has just returned
EpisodeEnded == loop = "reset" /\ Len(running_avg) > 1

\* C18: as long as every episode so far ended with its only terminal
\* transition, after every on_episode_end the length of running_avg equals
\* the episode counter, both being 1 + the number of finished episodes;
\* once an episode has ended without a terminal transition, the length of
\* running_avg is larger than the counter after every later
\* on_episode_end.
C18_LengthAndCounter ==
    EpisodeEnded =>
        IF truncated
        THEN Len(running_avg) > _episode_count
        ELSE /\ Len(running_avg) = _episode_count
             /\ _episode_count = 1 + NTerminal(inputs, Len(inputs))
             /\ Last(inputs).is_terminal

\* an episode cut after one non-terminal transition, then an episode that
\* ended with a terminal transition: three averages, counter 2
C18_Witness ==
    /\ EpisodeEnded
    /\ truncated
    /\ Len(inputs) = 2
    /\ started_at = 1
    /\ ~inputs[1].is_terminal
    /\ inputs[2].is_terminal
    /\ Len(running_avg) = 3
    /\ _episode_count = 2

\* the largest reward the environment gives
Rmax == SetMax(Rewards)

\* 0 <= x <= Rmax / (1 - discount_factor), for x in grid steps
InQRange(x) ==
    /\ 0 <= x
    /\ x * (_gamma[2] - _gamma[1]) <= Rmax * scale * _gamma[2]

\* C19: with 0 < learning_rate <= 1, 0 <= discount_factor < 1 and rewards
\* in 0..Rmax, every entry of Q is within 0..Rmax / (1 - discount_factor)
\* after any sequence of on_step_taken calls, and one call changes no
\* entry of Q but Q[state, action] of its transition.
C19_QRange ==
    /\ [](/\ 0 < _lr[1] /\ _lr[1] <= _lr[2]
          /\ 0 <= _gamma[1] /\ _gamma[1] < _gamma[2]
          /\ \A s \in QStates : \A a \in QActions : InQRange(Q[s][a]))
    /\ [][ \A s \in QStates : \A a \in QActions :
             Q'[s][a] # Q[s][a] =>
                /\ Len(inputs') = Len(inputs) + 1
                /\ s = Last(inputs').state
                /\ a = Last(inputs').action ]_vars

\* two calls of on_step_taken have raised one entry above Rmax, by the
\* discounted value of the next state, and left the other entries alone
C19_Witness ==
    /\ StepTaken
    /\ Q[transition.state][transition.action] > Rmax * scale
    /\ Q[transition.state][transition.action]
          # Q_old[transition.state][transition.action]
    /\ \A s \in QStates : \A a \in QActions :
          <<s, a>> # <<transition.state, transition.action>> =>
              Q[s][a] = Q_old[s][a]
====
